---- MODULE Spec2Model ----
(***************************************************************************)
(* RiveSprite (packages/@schmooky/pixi-rive/src/index.ts): a Pixi Sprite   *)
(* whose texture is a canvas the Rive runtime draws into.  The model is    *)
(* the adapter's fields, the two collaborators it mutates (the engine      *)
(* instances it created and the host clock's listener list) and the        *)
(* asynchronous load cycles (init / setSource -> initRive) with their      *)
(* suspension points.  JavaScript is single threaded: each action is the   *)
(* code that runs between two suspension points.                           *)
(***************************************************************************)
EXTENDS Integers, Sequences, FiniteSets, TLC

\* Total number of load cycles in one behaviour: the construction-time
\* init() plus the setSource() calls.
MaxLoads == 2

\* Source identifiers a caller may pass (opts.src, setSource(src)).
Srcs == {"a.riv", "b.riv"}

\* How the fetch of the bytes can settle: bytes, a non-OK status, or a
\* transport fault (of fetch() or of resp.arrayBuffer()).
FetchResults == {"ok", "http", "fault"}

\* How `new Rive({...})` can end: an instance, or the engine rejects the bytes.
CreateResults == {"ok", "reject"}

\* How `Dispose previous runtime if present' can go: pause?.() and cleanup()
\* both return, pause?.() throws (cleanup() is then never called), or
\* cleanup() throws.
DisposeResults == {"ok", "pause_throws", "cleanup_throws"}

\* How `ts.update()` can end.
UploadResults == {"ok", "throw"}

\* Largest opts.size tried, in logical pixels.
MaxSize == 8

\* window.devicePixelRatio is a multiple of 1/DprUnit, at most MaxDpr/DprUnit.
DprUnit == 4
MaxDpr == 12

\* `opts.size ?? 512'
DefaultSize == 512

VARIABLES
  _rive,            \* index into `engine' of the bound instance, 0 = undefined
  _ticker,          \* TRUE iff this._ticker is set
  _src,
  _autoplay,
  _ready,
  _destroyed,
  _didFirstUpload,
  engine,           \* the Rive instances created by the adapter, in creation order
  listeners,        \* how many times _tick is registered with Ticker.system
  texture,          \* TRUE iff this.texture?.source exists and has update()
  nodeDestroys,     \* number of super.destroy() calls
  calls,            \* the load cycles: calls[1] is init(), the rest setSource()
  canvas,           \* the backing canvas and the sizing it was made from
  last              \* history: the operation that ran last and what it did

vars == << _rive, _ticker, _src, _autoplay, _ready, _destroyed, _didFirstUpload,
           engine, listeners, texture, nodeDestroys, calls, canvas, last >>

\* Everything the adapter and its collaborators hold (no history variables).
progVars == << _rive, _ticker, _src, _autoplay, _ready, _destroyed, _didFirstUpload,
               engine, listeners, texture, nodeDestroys, calls, canvas >>

\* disp is how the dispose block of a load step went, "none" when the step
\* ran none.
Note(op, call, out) == [op |-> op, call |-> call, out |-> out, disp |-> "none"]

\* get isReady()
isReady == _ready

----------------------------------------------------------------------------
\* The constructor's sizing of the backing canvas.  An optional number
\* (opts.size, window.devicePixelRatio) is [given |-> FALSE, v |-> 0] when
\* undefined and [given |-> TRUE, v |-> n] otherwise.

NoOption == [given |-> FALSE, v |-> 0]
Some(n) == [given |-> TRUE, v |-> n]

Max(a, b) == IF a >= b THEN a ELSE b

\* `const size = opts.size ?? 512', in logical pixels.
sizeOf(o) == IF o.given THEN o.v ELSE DefaultSize

\* `const dpr = Math.max(1, window.devicePixelRatio || 1)', in 1/DprUnit.
dprOf(r) == Max(DprUnit, IF r.given /\ r.v # 0 THEN r.v ELSE DprUnit)

\* A sizing without the lower limit of 2.
canvasDimNoMin(size, dpr) == (size * dpr) \div DprUnit

\* `Math.max(2, Math.floor(size * dpr))'
canvasDim(size, dpr) == Max(2, (size * dpr) \div DprUnit)

\* The canvas the constructor creates for opts.size o and a host-reported
\* devicePixelRatio r.
createCanvas(o, r) ==
  [built |-> TRUE, optSize |-> o, hostDpr |-> r,
   size |-> sizeOf(o), dpr |-> dprOf(r),
   width |-> canvasDim(sizeOf(o), dprOf(r)),
   height |-> canvasDim(sizeOf(o), dprOf(r))]

----------------------------------------------------------------------------
\* Collaborators

\* Ticker.add(fn): appends a listener (no de-duplication).
TickerAdd(ls) == ls + 1

\* Ticker.remove(fn): removes every listener that matches fn.
TickerRemove(ls) == 0

\* rive.pause?.() / rive.play?.() on instance h of the engine list e.
EnginePause(e, h) == [e EXCEPT ![h].playing = FALSE]
EnginePlay(e, h) == [e EXCEPT ![h].playing = TRUE]

\* rive.cleanup() on instance h; a cleanup that throws has released nothing.
EngineCleanup(e, h, throws) ==
  [e EXCEPT ![h].cleanups = @ + 1,
            ![h].disposed = IF throws THEN @ ELSE TRUE]

\* rive.pause?.() on instance h throws: nothing is paused.
EnginePauseThrows(e, h) == e

\* new Rive({buffer, canvas, autoplay}) for bytes fetched from s.
NewRive(s, ap) ==
  [src |-> s, playing |-> ap, cleanups |-> 0, disposed |-> FALSE]

----------------------------------------------------------------------------
\* enable() / disable(): the new (_ticker, listeners) pair.

\* An enable() that registers without looking at this._ticker.
enableUnguarded(tk, ls) == [ticker |-> TRUE, listeners |-> TickerAdd(ls)]

enable(tk, ls) ==
  IF ~tk THEN [ticker |-> TRUE, listeners |-> TickerAdd(ls)]
         ELSE [ticker |-> tk, listeners |-> ls]

disable(tk, ls) ==
  IF tk THEN [ticker |-> FALSE, listeners |-> TickerRemove(ls)]
        ELSE [ticker |-> tk, listeners |-> ls]

Enable ==
  LET r == enable(_ticker, listeners) IN
  /\ _ticker' = r.ticker
  /\ listeners' = r.listeners
  /\ last' = Note("enable", 0, IF _ticker THEN "noop" ELSE "added")
  /\ UNCHANGED << _rive, _src, _autoplay, _ready, _destroyed, _didFirstUpload,
                  engine, texture, nodeDestroys, calls, canvas >>

Disable ==
  LET r == disable(_ticker, listeners) IN
  /\ _ticker' = r.ticker
  /\ listeners' = r.listeners
  /\ last' = Note("disable", 0, IF _ticker THEN "removed" ELSE "noop")
  /\ UNCHANGED << _rive, _src, _autoplay, _ready, _destroyed, _didFirstUpload,
                  engine, texture, nodeDestroys, calls, canvas >>

----------------------------------------------------------------------------
\* pause() / play()

\* A pause() that leaves the stored playback setting alone.
pauseKeepsAutoplay(ap) == ap

\* `this._autoplay = false;' in pause(), `this._autoplay = true;' in play():
\* both run before the `if (this._rive)' test.
pauseAutoplay(ap) == FALSE
playAutoplay(ap) == TRUE

Pause ==
  /\ _autoplay' = pauseAutoplay(_autoplay)
  /\ engine' = IF _rive # 0 THEN EnginePause(engine, _rive) ELSE engine
  /\ last' = Note("pause", 0, IF _rive # 0 THEN "paused" ELSE "no_rive")
  /\ UNCHANGED << _rive, _ticker, _src, _ready, _destroyed, _didFirstUpload,
                  listeners, texture, nodeDestroys, calls, canvas >>

Play ==
  /\ _autoplay' = playAutoplay(_autoplay)
  /\ engine' = IF _rive # 0 THEN EnginePlay(engine, _rive) ELSE engine
  /\ last' = Note("play", 0, IF _rive # 0 THEN "playing" ELSE "no_rive")
  /\ UNCHANGED << _rive, _ticker, _src, _ready, _destroyed, _didFirstUpload,
                  listeners, texture, nodeDestroys, calls, canvas >>

----------------------------------------------------------------------------
\* destroy(options)

\* A destroy() without the re-entry guard.
NeverDestroyed(d) == FALSE

\* `if (this._destroyed) { warn; return; }'
AlreadyDestroyed(d) == d

Destroy(cleanupThrows, superThrows) ==
  IF AlreadyDestroyed(_destroyed)
  THEN /\ last' = Note("destroy", 0, "called_twice")
       /\ UNCHANGED << _rive, _ticker, _src, _autoplay, _ready, _destroyed,
                       _didFirstUpload, engine, listeners, texture, nodeDestroys,
                       calls, canvas >>
  ELSE LET r == disable(_ticker, listeners) IN
       /\ _destroyed' = TRUE
       /\ _ticker' = r.ticker
       /\ listeners' = r.listeners
       /\ engine' = IF _rive # 0 THEN EngineCleanup(engine, _rive, cleanupThrows)
                                 ELSE engine
       /\ nodeDestroys' = nodeDestroys + 1
       \* Sprite.destroy() drops the texture reference as its last step, so
       \* a teardown that throws has not dropped it.
       /\ texture' = (superThrows /\ texture)
       /\ last' = Note("destroy", 0, IF superThrows THEN "raised" ELSE "end")
       /\ UNCHANGED << _rive, _src, _autoplay, _ready, _didFirstUpload, calls,
                       canvas >>

----------------------------------------------------------------------------
\* Load cycles: init() / setSource(src) -> initRive()
\*
\* initRive() suspends in `await fetch(src)' and `await resp.arrayBuffer()';
\* no adapter state changes between the two, so they are one suspension
\* point here.  When the fetch settles, the rest of initRive() runs to its
\* end in one piece.  init() then resumes from `await this.initRive()' in a
\* later microtask, and other callbacks can run before it does: that is a
\* step of its own (InitResume).  setSource() has nothing after its await
\* but the settling of its promise, which is recorded with the load.

\* A load cycle that has just entered initRive() and is suspended in the
\* fetch.
NewCall(kind, s) ==
  [kind |-> kind, src |-> s, res |-> "none", outcome |-> "pending"]

InFlight(c) == c.res = "none"
Loaded(c) == c.res = "ok"
Failed(c) == c.res \in {"FetchError", "EngineCreateError"}

\* `this._ready = false; this._didFirstUpload = false;' at the top of initRive().
ReadyAtStart(r) == FALSE

\* setSource(src): runs up to the suspension point of initRive().
SetSource(s) ==
  /\ Len(calls) < MaxLoads
  /\ _src' = s
  /\ _ready' = ReadyAtStart(_ready)
  /\ _didFirstUpload' = FALSE
  /\ calls' = Append(calls, NewCall("setSource", s))
  /\ last' = Note("setSource", Len(calls) + 1,
                  IF isReady THEN "was_ready" ELSE "was_not_ready")
  /\ UNCHANGED << _rive, _ticker, _autoplay, _destroyed, engine, listeners,
                  texture, nodeDestroys, canvas >>

\* An initRive() that creates the new instance without disposing the old one.
DisposeOldSkipped(e, h, d) == e

\* The engine list after `Dispose previous runtime if present': one try
\* around pause?.() and cleanup(), so a throwing pause skips the cleanup.
DisposeOld(e, h, d) ==
  IF h = 0 THEN e
  ELSE IF d = "pause_throws" THEN EnginePauseThrows(e, h)
  ELSE EngineCleanup(EnginePause(e, h), h, d = "cleanup_throws")

\* What initRive() ends with, given how the fetch and `new Rive' went:
\* the fetch catch and the create catch both log and rethrow.
initRiveResult(f, create) ==
  IF f # "ok" THEN "FetchError"
  ELSE IF create # "ok" THEN "EngineCreateError"
  ELSE "ok"

\* How the promise of `async init()' / `async setSource()' settles once
\* `await this.initRive()' has settled with res.
initOutcome(res) == IF res = "ok" THEN "fulfilled" ELSE "rejected"

\* A setSource() that swallows what initRive() throws.
setSourceSwallows(res) == "fulfilled"

setSourceOutcome(res) == IF res = "ok" THEN "fulfilled" ELSE "rejected"

\* A constructor that starts init() without attaching a catch.
ctorNoCatch(o) == o

\* The constructor's `this.init().catch((err) => this.error(...))'.
ctorCatch(o) == IF o = "rejected" THEN "caught" ELSE o

\* How load cycle i is reported to whoever started it.
Outcome(kind, res) ==
  IF kind = "init" THEN ctorCatch(initOutcome(res)) ELSE setSourceOutcome(res)

\* init() calls enable() after a successful initRive(); setSource() does not.
AfterLoad(kind, res, tk, ls) ==
  IF kind = "init" /\ res = "ok" THEN enable(tk, ls)
  ELSE [ticker |-> tk, listeners |-> ls]

\* The fetch of load cycle i settles with f and initRive() runs to its end.
LoadSettle(i, f, d, create, up) ==
  LET res == initRiveResult(f, create)
      e1 == IF f = "ok" THEN DisposeOld(engine, _rive, d) ELSE engine
      e2 == IF res = "ok"
            THEN Append(e1, NewRive(calls[i].src, _autoplay))
            ELSE e1
      uploaded == res = "ok" /\ texture /\ up = "ok"
  IN
  /\ InFlight(calls[i])
  /\ engine' = e2
  /\ _rive' = IF res = "ok" THEN Len(e2) ELSE _rive
  /\ _didFirstUpload' = (uploaded \/ _didFirstUpload)
  /\ _ready' = (res = "ok" \/ _ready)
  /\ calls' = [calls EXCEPT ![i].res = res,
                            ![i].outcome = IF calls[i].kind = "init" THEN "pending"
                                           ELSE Outcome(calls[i].kind, res)]
  /\ last' = [Note("load", i,
                   IF res # "ok" THEN res
                   ELSE IF uploaded THEN "first_upload_ok"
                   ELSE IF texture THEN "first_upload_error"
                   ELSE "no_update_method")
                EXCEPT !.disp = IF f = "ok" /\ _rive # 0 THEN d ELSE "none"]
  /\ UNCHANGED << _ticker, listeners, _src, _autoplay, _destroyed, texture,
                  nodeDestroys, canvas >>

\* init() has returned from `await this.initRive()' and not yet resumed.
Resuming(c) == c.kind = "init" /\ ~InFlight(c) /\ c.outcome = "pending"

\* init() resumes: `this.enable()' after a successful initRive(), or the
\* rejection reaches the constructor's catch.
InitResume(i) ==
  LET t == AfterLoad(calls[i].kind, calls[i].res, _ticker, listeners)
      o == Outcome(calls[i].kind, calls[i].res)
  IN
  /\ Resuming(calls[i])
  /\ _ticker' = t.ticker
  /\ listeners' = t.listeners
  /\ calls' = [calls EXCEPT ![i].outcome = o]
  /\ last' = Note("init", i, o)
  /\ UNCHANGED << _rive, _src, _autoplay, _ready, _destroyed, _didFirstUpload,
                  engine, texture, nodeDestroys, canvas >>

----------------------------------------------------------------------------
\* update(deltaMS), called by the host clock for a registered _tick.

\* What update() does: "uploaded" is the only outcome that marks the
\* texture source dirty.
update(up) ==
  IF _rive = 0 THEN "skip.no_rive"
  ELSE IF ~_ticker THEN "skip.no_ticker"
  ELSE IF ~texture THEN "no_update_method"
  ELSE IF up # "ok" THEN "upload_error"
  ELSE "uploaded"

Tick(up) ==
  /\ listeners > 0
  /\ LET out == update(up) IN
     /\ _didFirstUpload' = (_didFirstUpload \/ out = "uploaded")
     /\ last' = Note("tick", 0, out)
  /\ UNCHANGED << _rive, _ticker, _src, _autoplay, _ready, _destroyed, engine,
                  listeners, texture, nodeDestroys, calls, canvas >>

----------------------------------------------------------------------------
\* The state right after `new RiveSprite(opts)' returns: the constructor has
\* called init(), which is suspended in initRive() at `await fetch(src)'.
Init ==
  /\ _rive = 0
  /\ _ticker = FALSE
  /\ _src = "a.riv"
  /\ _autoplay \in BOOLEAN
  /\ _ready = FALSE
  /\ _destroyed = FALSE
  /\ _didFirstUpload = FALSE
  /\ engine = << >>
  /\ listeners = 0
  /\ texture = TRUE
  /\ nodeDestroys = 0
  /\ calls = << NewCall("init", _src) >>
  /\ canvas = createCanvas(NoOption, NoOption)
  /\ last = Note("ctor", 1, "initRive.start")

Next ==
  \/ \E s \in Srcs : SetSource(s)
  \/ \E i \in 1..Len(calls) : \E f \in FetchResults : \E d \in DisposeResults :
       \E c \in CreateResults : \E u \in UploadResults : LoadSettle(i, f, d, c, u)
  \/ \E i \in 1..Len(calls) : InitResume(i)
  \/ Pause
  \/ Play
  \/ Enable
  \/ Disable
  \/ \E ct \in BOOLEAN : \E st \in BOOLEAN : Destroy(ct, st)
  \/ \E u \in UploadResults : Tick(u)

Spec == Init /\ [][Next]_vars

----------------------------------------------------------------------------
\* The constructor's canvas sizing on its own: the options and the host's
\* devicePixelRatio are drawn from bounded sets, and the one step is the
\* constructor creating the canvas from them.

SizeOptions == {NoOption} \cup {Some(n) : n \in 1..MaxSize}
DprValues == {NoOption} \cup {Some(n) : n \in 0..MaxDpr}

SizeInit ==
  /\ _rive = 0
  /\ _ticker = FALSE
  /\ _src = "a.riv"
  /\ _autoplay = TRUE
  /\ _ready = FALSE
  /\ _destroyed = FALSE
  /\ _didFirstUpload = FALSE
  /\ engine = << >>
  /\ listeners = 0
  /\ texture = FALSE
  /\ nodeDestroys = 0
  /\ calls = << >>
  /\ last = Note("new", 0, "start")
  /\ \E o \in SizeOptions : \E r \in DprValues :
       canvas = [built |-> FALSE, optSize |-> o, hostDpr |-> r,
                 size |-> 0, dpr |-> 0, width |-> 0, height |-> 0]

CreateCanvas ==
  /\ ~canvas.built
  /\ canvas' = createCanvas(canvas.optSize, canvas.hostDpr)
  /\ texture' = TRUE
  /\ last' = Note("ctor", 0, "canvas")
  /\ UNCHANGED << _rive, _ticker, _src, _autoplay, _ready, _destroyed,
                  _didFirstUpload, engine, listeners, nodeDestroys, calls >>

SizeNext == CreateCanvas

SizeSpec == SizeInit /\ [][SizeNext]_vars

----------------------------------------------------------------------------
\* Properties

SetSourceCalls == 2..Len(calls)

\* C1: a setSource called on a ready, non-destroyed adapter whose fetch
\* fails right away leaves isReady true and the old instance bound and not
\* disposed.
C1_FailedSetSourceKeepsReady ==
  [][(/\ last.op = "setSource" /\ last.out = "was_ready" /\ ~_destroyed
      /\ last'.op = "load" /\ last'.call = last.call
      /\ last'.out = "FetchError")
     => (isReady' /\ _rive' # 0 /\ ~engine'[_rive'].disposed)]_vars

\* C2: once destroy() has run, a load that settles creates no engine
\* instance and binds none.
C2_NoBindAfterDestroy ==
  [][_destroyed => (Len(engine') = Len(engine) /\ _rive' = _rive)]_vars

\* C3: a destroy() call on a destroyed adapter does no cleanup work, changes
\* no state and does not raise.
C3_DestroyOnce ==
  [][(_destroyed /\ last'.op = "destroy")
       => (UNCHANGED progVars /\ last'.out = "called_twice")]_vars

C3_Witness ==
  /\ last.op = "destroy" /\ last.out = "called_twice"
  /\ _rive # 0 /\ engine[_rive].cleanups = 1 /\ nodeDestroys = 1

\* C4: the frame callback is registered with the host clock at most once,
\* and enable() when enabled / disable() when disabled change nothing.
C4_SingleRegistration ==
  /\ [](listeners <= 1 /\ (_ticker <=> listeners = 1))
  /\ [][((last'.op = "enable" /\ _ticker) \/ (last'.op = "disable" /\ ~_ticker))
          => UNCHANGED progVars]_vars

C4_Witness ==
  last.op = "enable" /\ last.out = "noop" /\ listeners = 1

\* C5: a tick uploads only when isReady is true and an engine instance is
\* bound.
C5_UploadOnlyWhenReady ==
  (last.op = "tick" /\ last.out = "uploaded") => (isReady /\ _rive # 0)

\* C6: whenever isReady is true, an instance is bound and the first upload
\* of the current load cycle has been performed (_didFirstUpload is reset
\* when a cycle starts and set by every upload).
C6_ReadyImpliesFirstUpload ==
  isReady => (_rive # 0 /\ _didFirstUpload)

\* C7: when the first successful load has completed (its init() or
\* setSource() promise has settled) on a non-destroyed adapter and no other
\* load is in flight or resuming, the frame callback is registered.
C7_AutoEnableAfterFirstLoad ==
  (last.op \in {"load", "init"} /\ Loaded(calls[last.call])
     /\ calls[last.call].outcome = "fulfilled" /\ ~_destroyed
     /\ \A j \in 1..Len(calls) :
          j # last.call => (~Loaded(calls[j]) /\ ~InFlight(calls[j])
                              /\ ~Resuming(calls[j])))
  => (_ticker /\ listeners = 1)

\* C8: on a destroyed adapter the frame callback is not registered.
C8_DestroyedReleasesSubscription ==
  _destroyed => (~_ticker /\ listeners = 0)

\* C9: a failed construction-time load is caught by the constructor, and the
\* adapter is not ready as long as no setSource has succeeded.
C9_InitFailureContained ==
  Failed(calls[1])
  => /\ calls[1].outcome = (IF Resuming(calls[1]) THEN "pending" ELSE "caught")
     /\ (\A j \in SetSourceCalls : ~Loaded(calls[j])) => ~isReady

C9_Witness ==
  /\ last.op = "init" /\ last.call = 1 /\ Failed(calls[1])
  /\ calls[1].outcome = "caught" /\ ~isReady

\* C10: a setSource whose load fails, by the fetch or by the engine
\* rejecting the bytes, rejects to its caller, and only then.
C10_SetSourceErrorsPropagate ==
  \A i \in SetSourceCalls :
    /\ Failed(calls[i]) <=> calls[i].outcome = "rejected"
    /\ Loaded(calls[i]) <=> calls[i].outcome = "fulfilled"

C10_Witness ==
  \E i \in SetSourceCalls :
    /\ last.op = "load" /\ last.call = i
    /\ calls[i].res = "EngineCreateError" /\ calls[i].outcome = "rejected"

\* C11: a load that fails because the engine rejects the bytes leaves the
\* bound instance untouched: cleanup was never called on it.
C11_FailedCreateKeepsOldHandle ==
  (last.op = "load" /\ calls[last.call].res = "EngineCreateError"
     /\ _rive # 0 /\ ~_destroyed)
  => (engine[_rive].cleanups = 0 /\ ~engine[_rive].disposed)

Handles == 1..Len(engine)

\* C12: at most one instance created by the adapter is live (created and
\* not disposed).
C12_OneLiveHandle ==
  Cardinality({h \in Handles : ~engine[h].disposed}) <= 1

\* C12, amended: a new instance is only created in a step that has first
\* run the dispose block on the instance bound before it.  When neither
\* pause nor cleanup throws, that instance is paused and disposed; when
\* pause throws, cleanup is not called and the instance is left as it was;
\* when cleanup throws, it was called and has released nothing.
C12_NewAfterDisposeBlock ==
  [][(Len(engine') > Len(engine) /\ _rive # 0)
     => /\ Len(engine') = Len(engine) + 1
        /\ \A h \in Handles : h # _rive => engine'[h] = engine[h]
        /\ last'.disp \in DisposeResults
        /\ last'.disp = "ok"
             => engine'[_rive] = [engine[_rive] EXCEPT !.playing = FALSE,
                                                       !.cleanups = @ + 1,
                                                       !.disposed = TRUE]
        /\ last'.disp = "pause_throws" => engine'[_rive] = engine[_rive]
        /\ last'.disp = "cleanup_throws"
             => engine'[_rive] = [engine[_rive] EXCEPT !.playing = FALSE,
                                                       !.cleanups = @ + 1]]_vars

C12_Witness ==
  /\ last.op = "load" /\ last.disp = "pause_throws"
  /\ Len(engine) = 2 /\ _rive = 2
  /\ engine[1].cleanups = 0 /\ ~engine[1].disposed
  /\ engine[2].cleanups = 0 /\ ~engine[2].disposed

\* C13: a disposal error never interrupts the surrounding operation; for
\* destroy() this means the call never raises.
C13_DestroyNeverRaises ==
  last.op = "destroy" => last.out # "raised"

\* Everything the adapter and its collaborators hold, except _autoplay.
progVarsButAutoplay ==
  << _rive, _ticker, _src, _ready, _destroyed, _didFirstUpload, engine,
     listeners, texture, nodeDestroys, calls, canvas >>

\* C14: pause() and play() with no instance bound change no state at all.
C14_PauseWithoutHandleIsNoop ==
  [][(_rive = 0 /\ last'.op \in {"pause", "play"}) => UNCHANGED progVars]_vars

\* C14, amended: pause() and play() with no instance bound raise nothing and
\* change nothing but the stored playback setting, which they set to the
\* requested one.
C14_PauseWithoutHandleSetsAutoplay ==
  [][(_rive = 0 /\ last'.op \in {"pause", "play"})
       => /\ last'.out = "no_rive"
          /\ _autoplay' = (last'.op = "play")
          /\ UNCHANGED progVarsButAutoplay]_vars

C14_Witness ==
  /\ last.op = "pause" /\ last.out = "no_rive"
  /\ _rive = 0 /\ ~_autoplay /\ InFlight(calls[1])

\* C16: a load that completes without error leaves isReady true with the
\* priming upload of that load cycle performed.
C16_LoadedImpliesUploaded ==
  (last.op = "load" /\ Loaded(calls[last.call]))
  => (isReady /\ last.out = "first_upload_ok" /\ _didFirstUpload)

\* C17: cleanup() is invoked at most once on every instance.
C17_CleanupAtMostOnce ==
  \A h \in Handles : engine[h].cleanups <= 1

AllSettled == \A j \in 1..Len(calls) : ~InFlight(calls[j])

\* C18: once every load has settled and the most recently requested one
\* succeeded, the bound instance was created from the most recently
\* requested source.
C18_LatestSourceBound ==
  (AllSettled /\ Loaded(calls[Len(calls)]) /\ _rive # 0)
  => engine[_rive].src = calls[Len(calls)].src

\* C19: whenever isReady is true, the adapter is not destroyed and the bound
\* instance exists and has not been disposed.
C19_ReadyImpliesLiveHandle ==
  isReady => (~_destroyed /\ _rive # 0 /\ ~engine[_rive].disposed)

\* C20: whenever isReady is true, no load is in flight.
C20_ReadyImpliesNoLoadPending ==
  isReady => AllSettled

\* The scale the claim names for a host-reported ratio, in 1/DprUnit:
\* the ratio, but 1 when it is missing, zero or below 1.
ClampedScale(r) == IF r.given /\ r.v >= DprUnit THEN r.v ELSE DprUnit

\* C15: for a positive logical size and any host-reported ratio, width and
\* height of the canvas are equal, at least 2, and equal to
\* max(2, floor(size * scale)): floor(x) is the integer n with n <= x < n + 1.
C15_CanvasSize ==
  canvas.built =>
    LET size == IF canvas.optSize.given THEN canvas.optSize.v ELSE DefaultSize
        prod == size * ClampedScale(canvas.hostDpr)
    IN
    /\ canvas.width = canvas.height
    /\ canvas.width >= 2
    /\ \E n \in 0..prod :
         /\ n * DprUnit <= prod /\ prod < (n + 1) * DprUnit
         /\ canvas.width = (IF n < 2 THEN 2 ELSE n)

\* A size times a ratio that is not a whole number and above 2.
C15_Witness ==
  /\ canvas.built /\ canvas.optSize.given /\ canvas.hostDpr.given
  /\ canvas.width > 2
  /\ canvas.size * canvas.dpr > canvas.width * DprUnit

====
